---- MODULE Spec2Model ----
(***************************************************************************)
(* extract-frames (src/extract_frames/main.py): timestamp parsing, range   *)
(* validation, output directory naming and the frame extraction loop.      *)
(***************************************************************************)
EXTENDS Integers, Sequences, FiniteSets, TLC

VARIABLES
    ts,             \* the text handed to timestamp_in_seconds
    ppc,            \* "idle", "pending" (text received) or "parsed"
    parsed,         \* the outcome of timestamp_in_seconds: [ok, val]
    pc,             \* position of main(): see PcValues
    args,           \* argparse.Namespace: [start, end, splitby]
    file,           \* the video on disk: [framecount, fps]
    probe,          \* the VideoCapture of video_details
    cap,            \* the VideoCapture of extract_frames
    video,          \* the Video dataclass (or NoVideo before it is built)
    pos,            \* CAP_PROP_POS_FRAMES of the capture of extract_frames
    next_frame,     \* local of extract_frames
    i,              \* local of extract_frames
    framesdir,      \* local of extract_frames: the directory of this run
    fs,             \* directories that exist under video.dirname
    files,          \* image files on disk: <<directory, name index, source index>>
    reads,          \* this run: decoder position at each read(), in order
    readFailed,     \* this run: a read() returned success = False
    written,        \* this run: index in the name of each imwrite(), in order
    error,          \* what ended the run abnormally, or "none"
    runs            \* number of invocations of main() started so far

vars == <<ts, ppc, parsed, pc, args, file, probe, cap, video, pos, next_frame, i,
          framesdir, fs, files, reads, readFailed, written, error, runs>>

parseVars == <<ts, ppc, parsed>>
runVars == <<pc, args, file, probe, cap, video, pos, next_frame, i,
             framesdir, fs, files, reads, readFailed, written, error, runs>>

----------------------------------------------------------------------------
(* Bounds *)

MaxLen == 5          \* longest enumerated timestamp text
MaxFrames == 4       \* largest frame count of the video file
MaxFps == 2          \* largest frame rate of the video file
MaxSeconds == 2      \* largest -s / -e value
MaxStride == 2       \* largest -f value
MaxPre == 1          \* largest suffix of a directory existing before run 1
MaxRuns == 3         \* invocations of main() on the same command line

\* args.end when -e is not given (argparse default)
None == -1

----------------------------------------------------------------------------
(* Python's int(str) *)

Digits == {"0", "1", "2", "3", "4", "5", "6", "7", "8", "9"}

DigitVal(c) ==
    CASE c = "0" -> 0 [] c = "1" -> 1 [] c = "2" -> 2 [] c = "3" -> 3
      [] c = "4" -> 4 [] c = "5" -> 5 [] c = "6" -> 6 [] c = "7" -> 7
      [] c = "8" -> 8 [] c = "9" -> 9

RECURSIVE LStrip(_)
LStrip(s) == IF s # <<>> /\ Head(s) = " " THEN LStrip(Tail(s)) ELSE s

RECURSIVE RStrip(_)
RStrip(s) ==
    IF s # <<>> /\ s[Len(s)] = " " THEN RStrip(SubSeq(s, 1, Len(s) - 1)) ELSE s

Strip(s) == RStrip(LStrip(s))

Unsigned(s) == IF s # <<>> /\ Head(s) \in {"+", "-"} THEN Tail(s) ELSE s

\* digits, with single underscores allowed between two digits
DigitsOK(d) ==
    /\ d # <<>>
    /\ \A k \in 1..Len(d) :
          \/ d[k] \in Digits
          \/ /\ d[k] = "_"
             /\ 1 < k /\ k < Len(d)
             /\ d[k - 1] \in Digits /\ d[k + 1] \in Digits

RECURSIVE DigitsValue(_, _)
DigitsValue(d, acc) ==
    IF d = <<>> THEN acc
    ELSE IF Head(d) = "_" THEN DigitsValue(Tail(d), acc)
    ELSE DigitsValue(Tail(d), acc * 10 + DigitVal(Head(d)))

\* int(s): [ok |-> FALSE] stands for ValueError
python_int(s) ==
    LET t == Strip(s)
        d == Unsigned(t)
    IN  IF DigitsOK(d)
        THEN [ok |-> TRUE,
              val |-> IF Head(t) = "-" THEN 0 - DigitsValue(d, 0)
                      ELSE DigitsValue(d, 0)]
        ELSE [ok |-> FALSE, val |-> 0]

----------------------------------------------------------------------------
(* positive_int and timestamp_in_seconds *)

\* [ok |-> FALSE] stands for argparse.ArgumentTypeError
ArgumentTypeError == [ok |-> FALSE, val |-> 0]

\* mutant: allow_zero is ignored, zero is rejected
positive_int_rejects_zero(s, allow_zero) ==
    LET n == python_int(s)
    IN  IF ~n.ok THEN ArgumentTypeError
        ELSE IF n.val <= 0 THEN ArgumentTypeError
        ELSE [ok |-> TRUE, val |-> n.val]

positive_int(s, allow_zero) ==
    LET n == python_int(s)
    IN  IF ~n.ok THEN ArgumentTypeError
        ELSE IF (allow_zero /\ n.val < 0) \/ (~allow_zero /\ n.val <= 0)
             THEN ArgumentTypeError
        ELSE [ok |-> TRUE, val |-> n.val]

\* str.split(":")
RECURSIVE SplitFrom(_, _, _)
SplitFrom(s, k, cur) ==
    IF k > Len(s) THEN <<cur>>
    ELSE IF s[k] = ":" THEN <<cur>> \o SplitFrom(s, k + 1, <<>>)
    ELSE SplitFrom(s, k + 1, Append(cur, s[k]))

Split(s) == SplitFrom(s, 1, <<>>)

HasColon(s) == \E k \in 1..Len(s) : s[k] = ":"

\* the for loop of timestamp_in_seconds, from component k on
RECURSIVE TimestampLoop(_, _, _)
TimestampLoop(values, k, seconds) ==
    IF k > Len(values) THEN [ok |-> TRUE, val |-> seconds]
    ELSE LET value == values[k]
             n == positive_int(value, TRUE)
             again == python_int(value)
         IN  IF Len(value) > 2 THEN ArgumentTypeError
             ELSE IF ~n.ok THEN ArgumentTypeError
             ELSE IF n.val >= 60 THEN ArgumentTypeError
             ELSE IF ~again.ok THEN ArgumentTypeError
             ELSE TimestampLoop(values, k + 1, seconds * 60 + again.val)

timestamp_in_seconds(t) ==
    IF HasColon(t) THEN TimestampLoop(Split(t), 1, 0)
    ELSE positive_int(t, TRUE)

----------------------------------------------------------------------------
(* validate_start_end *)

RangeOk(start, end) == [ok |-> TRUE, start |-> start, end |-> end, err |-> "none"]
RangeErr(msg) == [ok |-> FALSE, start |-> 0, end |-> 0, err |-> msg]

StartExceeds == "Start timestamp exceeds video length"
EndEqualStart == "End timestamp equal to start timestamp"
EndPriorStart == "End timestamp prior to start timestamp"

\* mutant: the check end == start is missing
validate_start_end_no_empty(a, framecount, fps) ==
    LET start == IF a.start # 0 THEN a.start * fps ELSE 0
        end0 == IF a.end # None THEN a.end * fps ELSE framecount
        end == IF end0 > framecount THEN framecount ELSE end0
    IN  IF start > framecount THEN RangeErr(StartExceeds)
        ELSE IF end < start THEN RangeErr(EndPriorStart)
        ELSE RangeOk(start, end)

\* mutant: the two messages of the end checks are swapped
validate_start_end_swapped(a, framecount, fps) ==
    LET start == IF a.start # 0 THEN a.start * fps ELSE 0
        end0 == IF a.end # None THEN a.end * fps ELSE framecount
        end == IF end0 > framecount THEN framecount ELSE end0
    IN  IF start > framecount THEN RangeErr(StartExceeds)
        ELSE IF end = start THEN RangeErr(EndPriorStart)
        ELSE IF end < start THEN RangeErr(EndEqualStart)
        ELSE RangeOk(start, end)

validate_start_end(a, framecount, fps) ==
    LET start == IF a.start # 0 THEN a.start * fps ELSE 0
        end0 == IF a.end # None THEN a.end * fps ELSE framecount
        end == IF end0 > framecount THEN framecount ELSE end0
    IN  IF start > framecount THEN RangeErr(StartExceeds)
        ELSE IF end = start THEN RangeErr(EndEqualStart)
        ELSE IF end < start THEN RangeErr(EndPriorStart)
        ELSE RangeOk(start, end)

----------------------------------------------------------------------------
(* make_framesdir *)

NoVideo == [path |-> "none"]

\* the path os.path.join(video.dirname, frames_dirname [+ " (n)"]); n = 0 is the
\* unsuffixed name
DirName(v, n) ==
    [filename |-> v.filename,
     splitby |-> v.splitby,
     frame_text |-> IF v.splitby = 1 THEN "frame" ELSE "frames",
     start |-> v.start,
     end |-> v.end,
     suffix |-> n]

\* the while loop of make_framesdir
RECURSIVE WhileExists(_, _, _, _)
WhileExists(v, existing, path, n) ==
    IF path \in existing THEN WhileExists(v, existing, DirName(v, n), n + 1)
    ELSE path

\* mutant: the existence checks are missing
framesdir_path_unchecked(v, existing) == DirName(v, 0)

\* the path make_framesdir hands to os.mkdir
framesdir_path(v, existing) ==
    IF DirName(v, 0) \in existing THEN WhileExists(v, existing, DirName(v, 0), 1)
    ELSE DirName(v, 0)

----------------------------------------------------------------------------
(* extract_frames: arithmetic *)

\* math.ceil((video.end - video.start) / video.splitby), splitby > 0
frames_expected(v) == ((v.end - v.start) + v.splitby - 1) \div v.splitby

\* mutant: files are named by output position
imgname_by_count(next, count) == count

\* the index in the name of the image file: f"frame{next_frame}.jpg"
imgname(next, count) == next

\* mutant: the decoder is never repositioned
reposition_never(splitby, position, target) == position

\* the decoder position after a write: set(CAP_PROP_POS_FRAMES, next_frame)
\* when splitby != 1, otherwise where read() left it
reposition(splitby, position, target) ==
    IF splitby # 1 THEN target ELSE position

----------------------------------------------------------------------------
(* Inputs *)

Alphabet == {"0", "1", "6", "-", "_", ":", "a"}

ExampleTexts ==
    { <<"1", "2", "5">>,
      <<"0", "1", ":", "0", "2", ":", "0", "5">>,
      <<"1", ":", "2", ":", "3", ":", "4">>,
      <<"a", "b", "c">>,
      <<"9", "9", ":", "0", "0">>,
      <<"5", "9", ":", "5", "9">>,
      <<"7", "5", ":", "0", "0", ":", "0", "0">>,
      <<" ", "7">>,
      <<"+", "7">>,
      <<"1", ":", " ", "7">>,
      <<"1", "2", "5", ":", "0", "0">> }

Texts == UNION {[1..n -> Alphabet] : n \in 0..MaxLen} \cup ExampleTexts

Job(framecount, fps, start, end, splitby) ==
    [framecount |-> framecount, fps |-> fps, start |-> start, end |-> end,
     splitby |-> splitby]

ExampleJobs ==
    { Job(100, 10, 20, 5, 1) }

Jobs ==
    { Job(fc, r, s, e, k) :
        fc \in 0..MaxFrames, r \in 0..MaxFps, s \in 0..MaxSeconds,
        e \in (0..MaxSeconds) \cup {None}, k \in 1..MaxStride }
    \cup ExampleJobs

VideoPath == "clip"

----------------------------------------------------------------------------
(* State *)

NoDir == [filename |-> "none"]

\* run-local state at the start of main()
FreshRun ==
    /\ pc = "main"
    /\ probe = "none"
    /\ cap = "none"
    /\ video = NoVideo
    /\ pos = 0
    /\ next_frame = 0
    /\ i = 0
    /\ framesdir = NoDir
    /\ reads = <<>>
    /\ readFailed = FALSE
    /\ written = <<>>
    /\ error = "none"

\* the Video that build_video_metadata would build for job j, when it builds one
VideoOf(a, framecount, fps) ==
    LET r == validate_start_end(a, framecount, fps)
    IN  [path |-> a.path, filename |-> a.path, framecount |-> framecount,
         fps |-> fps, splitby |-> a.splitby, start |-> r.start, end |-> r.end]

Init ==
    /\ ts = <<>>
    /\ ppc = "idle"
    /\ parsed = ArgumentTypeError
    /\ \E j \in Jobs :
          /\ args = [path |-> VideoPath, start |-> j.start, end |-> j.end,
                     splitby |-> j.splitby]
          /\ file = [framecount |-> j.framecount, fps |-> j.fps]
          /\ \E pre \in SUBSET (0..MaxPre) :
                fs = IF validate_start_end(args, j.framecount, j.fps).ok
                     THEN {DirName(VideoOf(args, j.framecount, j.fps), n) : n \in pre}
                     ELSE {}
    /\ files = {}
    /\ runs = 1
    /\ FreshRun

InitParse ==
    /\ ts \in Texts
    /\ ppc = "pending"
    /\ parsed = ArgumentTypeError
    /\ args = [path |-> VideoPath, start |-> 0, end |-> None, splitby |-> 1]
    /\ file = [framecount |-> 0, fps |-> 0]
    /\ fs = {}
    /\ files = {}
    /\ runs = 0
    /\ FreshRun

----------------------------------------------------------------------------
(* Actions *)

\* argparse applying type=timestamp_in_seconds to one -s / -e value
ParseTimestamp ==
    /\ ppc = "pending"
    /\ parsed' = timestamp_in_seconds(ts)
    /\ ppc' = "parsed"
    /\ UNCHANGED <<ts, runVars>>

\* video_details: the capture does not open, IOError propagates out of main()
VideoDetailsFails ==
    /\ pc = "main"
    /\ probe' = "unopened"
    /\ error' = "IOError"
    /\ pc' = "failed"
    /\ UNCHANGED <<parseVars, args, file, cap, video, pos, next_frame, i,
                   framesdir, fs, files, reads, readFailed, written, runs>>

\* video_details: opens, reads the two properties, releases
VideoDetails ==
    /\ pc = "main"
    /\ probe' = "released"
    /\ pc' = "validate"
    /\ UNCHANGED <<parseVars, args, file, cap, video, pos, next_frame, i,
                   framesdir, fs, files, reads, readFailed, written, error, runs>>

\* build_video_metadata after video_details: validate_start_end, then either
\* print and sys.exit(1) or build the Video
BuildVideoMetadata ==
    /\ pc = "validate"
    /\ LET r == validate_start_end(args, file.framecount, file.fps)
       IN  IF r.ok
           THEN /\ video' = VideoOf(args, file.framecount, file.fps)
                /\ pc' = "extract"
                /\ error' = error
           ELSE /\ video' = video
                /\ pc' = "failed"
                /\ error' = r.err
    /\ UNCHANGED <<parseVars, args, file, probe, cap, pos, next_frame, i,
                   framesdir, fs, files, reads, readFailed, written, runs>>

\* extract_frames, lines 140-143: the capture opens and is positioned
OpenCapture ==
    /\ pc = "extract"
    /\ cap' = "open"
    /\ next_frame' = video.start
    /\ pos' = video.start
    /\ pc' = "mkdir"
    /\ UNCHANGED <<parseVars, args, file, probe, video, i, framesdir, fs, files,
                   reads, readFailed, written, error, runs>>

\* extract_frames, lines 140-143: the capture does not open; set() has no effect
OpenCaptureFails ==
    /\ pc = "extract"
    /\ cap' = "unopened"
    /\ next_frame' = video.start
    /\ pc' = "mkdir"
    /\ UNCHANGED <<parseVars, args, file, probe, video, pos, i, framesdir, fs,
                   files, reads, readFailed, written, error, runs>>

\* make_framesdir, then i = 1
MakeFramesdir ==
    /\ pc = "mkdir"
    /\ framesdir' = framesdir_path(video, fs)
    /\ fs' = fs \cup {framesdir'}
    /\ i' = 1
    /\ pc' = "loop"
    /\ UNCHANGED <<parseVars, args, file, probe, cap, video, pos, next_frame,
                   files, reads, readFailed, written, error, runs>>

\* make_framesdir: os.mkdir raises OSError, which propagates out of main()
MakeFramesdirFails ==
    /\ pc = "mkdir"
    /\ error' = "OSError"
    /\ pc' = "failed"
    /\ UNCHANGED <<parseVars, args, file, probe, cap, video, pos, next_frame, i,
                   framesdir, fs, files, reads, readFailed, written, runs>>

\* while video_capture.isOpened() is false at once: the loop body never runs
LoopNotEntered ==
    /\ pc = "loop"
    /\ cap # "open"
    /\ pc' = "done"
    /\ UNCHANGED <<parseVars, args, file, probe, cap, video, pos, next_frame, i,
                   framesdir, fs, files, reads, readFailed, written, error, runs>>

\* one iteration: read() fails; release and break
ReadFails ==
    /\ pc = "loop"
    /\ cap = "open"
    /\ reads' = Append(reads, pos)
    /\ readFailed' = TRUE
    /\ cap' = "released"
    /\ pc' = "done"
    /\ UNCHANGED <<parseVars, args, file, probe, video, pos, next_frame, i,
                   framesdir, fs, files, written, error, runs>>

\* one iteration: read() succeeds, imwrite raises cv2.error out of main()
WriteFails ==
    /\ pc = "loop"
    /\ cap = "open"
    /\ reads' = Append(reads, pos)
    /\ pos' = pos + 1
    /\ error' = "cv2.error"
    /\ pc' = "failed"
    /\ UNCHANGED <<parseVars, args, file, probe, cap, video, next_frame, i,
                   framesdir, fs, files, readFailed, written, runs>>

\* one iteration: read() succeeds, the image is written; then either the last
\* expected frame was written (release, break) or the loop advances
ReadAndWrite ==
    /\ pc = "loop"
    /\ cap = "open"
    /\ reads' = Append(reads, pos)
    /\ files' = files \cup {<<framesdir, imgname(next_frame, i), pos>>}
    /\ written' = Append(written, imgname(next_frame, i))
    /\ IF frames_expected(video) = i
       THEN /\ cap' = "released"
            /\ pc' = "done"
            /\ pos' = pos + 1
            /\ UNCHANGED <<i, next_frame>>
       ELSE /\ i' = i + 1
            /\ next_frame' = next_frame + video.splitby
            /\ pos' = reposition(video.splitby, pos + 1, next_frame')
            /\ UNCHANGED <<cap, pc>>
    /\ UNCHANGED <<parseVars, args, file, probe, video, framesdir, fs,
                   readFailed, error, runs>>

\* the same command line is run again
RunAgain ==
    /\ pc \in {"done", "failed"}
    /\ runs < MaxRuns
    /\ runs' = runs + 1
    /\ pc' = "main"
    /\ probe' = "none"
    /\ cap' = "none"
    /\ video' = NoVideo
    /\ pos' = 0
    /\ next_frame' = 0
    /\ i' = 0
    /\ framesdir' = NoDir
    /\ reads' = <<>>
    /\ readFailed' = FALSE
    /\ written' = <<>>
    /\ error' = "none"
    /\ UNCHANGED <<parseVars, args, file, fs, files>>

Next ==
    \/ VideoDetailsFails
    \/ VideoDetails
    \/ BuildVideoMetadata
    \/ OpenCapture
    \/ OpenCaptureFails
    \/ MakeFramesdir
    \/ MakeFramesdirFails
    \/ LoopNotEntered
    \/ ReadFails
    \/ WriteFails
    \/ ReadAndWrite
    \/ RunAgain

NextParse == ParseTimestamp

Spec == Init /\ [][Next]_vars

SpecParse == InitParse /\ [][NextParse]_vars

----------------------------------------------------------------------------
(* Properties *)

\* ceil(d / k) for d >= 0, k > 0: the least n with n * k >= d
CeilDiv(d, k) == CHOOSE n \in 0..d : n * k >= d /\ \A m \in 0..(n - 1) : m * k < d

Expected == CeilDiv(video.end - video.start, video.splitby)

Validated == video # NoVideo

\* build_video_metadata has run validate_start_end in this run
RangeResolved == pc \notin {"main", "validate"} /\ probe = "released"

\* C1: a range that validation returns satisfies
\* 0 <= start_frame < end_frame <= frame_count.
C1_RangeWithinVideo ==
    Validated =>
        /\ 0 <= video.start
        /\ video.start < video.end
        /\ video.end <= file.framecount

\* a returned range with a non-zero start and an end clamped to the frame count
C1_Witness ==
    /\ Validated
    /\ video.start > 0
    /\ args.end # None
    /\ args.end * file.fps > file.framecount
    /\ video.end = file.framecount

\* C2: a completed extraction pass wrote at most ceil((e - s) / k) frames, and
\* exactly that many unless a read failed.
C2_FramesWritten ==
    pc = "done" =>
        /\ Len(written) <= Expected
        /\ ~readFailed => Len(written) = Expected

\* C3: the j-th file of a run is named by the absolute index
\* start_frame + (j - 1) * stride, inside [start_frame, end_frame), never twice.
C3_NamedByAbsoluteIndex ==
    Validated =>
        /\ \A j \in 1..Len(written) :
              /\ written[j] = video.start + (j - 1) * video.splitby
              /\ video.start <= written[j]
              /\ written[j] < video.end
        /\ \A j, k \in 1..Len(written) : j # k => written[j] # written[k]
        /\ {f[2] : f \in {g \in files : g[1] = framesdir}}
              = {written[j] : j \in 1..Len(written)}

\* stride 2 from frame 1: the files are frame1 and frame3
C3_Witness ==
    /\ Validated
    /\ video.splitby = 2
    /\ written = <<1, 3>>
    /\ pc = "done"

\* C4: no run ends with an opened decoder that was not released.
C4_DecoderReleased ==
    pc \in {"done", "failed"} => probe # "open" /\ cap # "open"

\* the suffix make_framesdir must choose: base name when free, else the least
\* free (n), n >= 1
LeastFreeSuffix(v, existing) ==
    CHOOSE n \in 0..Cardinality(existing) :
        /\ DirName(v, n) \notin existing
        /\ \A m \in 0..(n - 1) : DirName(v, m) \in existing

\* C5: make_framesdir creates a directory that did not exist before the call,
\* the base name or the base name with the least free suffix; directories are
\* never removed or reused.
C5_FreshDirectory ==
    [][/\ fs \subseteq fs'
       /\ (pc = "mkdir" /\ pc' = "loop") =>
             /\ framesdir' \notin fs
             /\ fs' = fs \cup {framesdir'}
             /\ framesdir' = DirName(video, LeastFreeSuffix(video, fs))]_vars

\* third run of the same job: its files go to the directory suffixed (2), the
\* earlier runs filled the base name and (1)
C5_Witness ==
    /\ runs = 3
    /\ pc = "done"
    /\ framesdir = DirName(video, 2)
    /\ \A n \in 0..2 : \E f \in files : f[1] = DirName(video, n)

\* int() accepts the text and the value is not negative
NonNegInt(s) == python_int(s).ok /\ python_int(s).val >= 0

RECURSIVE Base60(_, _)
Base60(c, n) == IF n = 0 THEN 0 ELSE Base60(c, n - 1) * 60 + python_int(c[n]).val

\* the reference of C6
RefParse(t) ==
    IF HasColon(t)
    THEN LET c == Split(t)
         IN  IF \E k \in 1..Len(c) :
                    \/ Len(c[k]) > 2
                    \/ ~NonNegInt(c[k])
                    \/ python_int(c[k]).val >= 60
             THEN ArgumentTypeError
             ELSE [ok |-> TRUE, val |-> Base60(c, Len(c))]
    ELSE IF NonNegInt(t) THEN [ok |-> TRUE, val |-> python_int(t).val]
         ELSE ArgumentTypeError

\* C6: timestamp_in_seconds agrees with the reference on every text, and a
\* successful result is never negative.
C6_ParseAgreesWithReference ==
    ppc = "parsed" =>
        /\ parsed = RefParse(ts)
        /\ parsed.ok => parsed.val >= 0

\* "01:02:05" parsed to 3725
C6_Witness ==
    /\ ppc = "parsed"
    /\ ts = <<"0", "1", ":", "0", "2", ":", "0", "5">>
    /\ parsed = [ok |-> TRUE, val |-> 3725]

\* an end was given and the start converts to a later frame than the end
Inverted == args.end # None /\ args.start * file.fps > args.end * file.fps

\* C7 as stated: every inverted request fails with the inverted-range error.
C7_InvertedReported ==
    (RangeResolved /\ Inverted) => error = EndPriorStart

\* C7 amended: an inverted request fails with the inverted-range error when the
\* start lies within the video, and with the start-exceeds-length error when
\* it does not.
C7_InvertedOrBeyond ==
    (RangeResolved /\ Inverted) =>
        /\ pc = "failed"
        /\ error = IF args.start * file.fps > file.framecount
                   THEN StartExceeds ELSE EndPriorStart

\* an inverted request inside the video, rejected as inverted
C7_Witness ==
    /\ RangeResolved
    /\ Inverted
    /\ args.start * file.fps <= file.framecount
    /\ error = EndPriorStart

\* C8: with fps == 0 no range is returned for a non-zero start timestamp.
C8_ZeroFpsRejected ==
    (RangeResolved /\ file.fps = 0 /\ args.start # 0) => ~Validated

\* C9: the loop ends after the first failed read, otherwise right after write
\* number ceil((e - s) / k), with at most that many reads.
C9_LoopStops ==
    pc = "done" =>
        /\ Len(reads) <= Expected
        /\ IF readFailed THEN Len(reads) = Len(written) + 1
           ELSE Len(reads) = Expected /\ Len(written) = Expected

\* C10: every read happens at the index that names the file: the position at
\* the j-th read is start_frame + (j - 1) * stride, the decoder stands at
\* next_frame whenever the loop is about to read, and each file frame<n> holds
\* the image of source index n.
C10_PositionMatchesName ==
    Validated =>
        /\ \A j \in 1..Len(reads) :
              reads[j] = video.start + (j - 1) * video.splitby
        /\ (pc = "loop" /\ cap = "open") => pos = next_frame
        /\ \A f \in files : f[2] = f[3]

\* stride 2: the second read happened at index 2 after a repositioning
C10_Witness ==
    /\ Validated
    /\ video.splitby = 2
    /\ reads = <<0, 2>>
    /\ <<framesdir, 2, 2>> \in files

====
